---- MODULE Spec2Model ----
(***************************************************************************)
(* Model of the raster alignment and stacking code of pyeo/core.py:        *)
(* stack_images, combine_masks and the geometry helpers they call.         *)
(*                                                                         *)
(* Geographic coordinates are integers (exact arithmetic; floating point   *)
(* rounding is not modelled).  A pixel is PixelSize units wide, so raster  *)
(* origins that differ by an odd number of units are offset by a           *)
(* non-integer number of pixels.                                           *)
(*                                                                         *)
(* A geometry (ogr.Geometry) is a finite set of closed axis-aligned        *)
(* rectangles <<xmin, xmax, ymin, ymax>> (the order of GetEnvelope); the   *)
(* point set is their union, {} is the empty geometry, and a rectangle of  *)
(* zero width or height is the line or point two touching polygons share.  *)
(*                                                                         *)
(* create_new_stacks, which selects the older images that cover the newest *)
(* one and stacks each of them with it, is modelled on the same geometry.  *)
(***************************************************************************)
EXTENDS Integers, Sequences, FiniteSets, TLC

VARIABLES
    raster_paths,       \* the argument list: the raster files (their contents)
    geometry_mode,      \* "intersect" | "union" | anything else (invalid)
    combination_func,   \* combine_masks only: "or" | "and" | other
    pc,                 \* position in the running function
    rasters,            \* the opened datasets (<<>> before gdal.Open)
    combined_polygons,  \* result of get_combined_polygon
    out_raster,         \* None or Some(dataset created by driver.Create)
    present_layer,      \* stack_images: running band offset
    idx,                \* number of loop iterations completed
    out_window,         \* last <<x_min, x_max, y_min, y_max>> computed for the output
    in_window,          \* last <<x_min, x_max, y_min, y_max>> computed for the input
    err,                \* the exception that ended the call, or "none"
    image_dir,          \* create_new_stacks: [path, files], the image directory
    stack_dir,          \* create_new_stacks: [path, names], the stack directory
    threshold,          \* create_new_stacks: the area below which the cover is complete
    safe_files,         \* the paths glob found, sorted newest first
    new_data_poly,      \* the part of the newest image not covered yet
    to_be_stacked,      \* the paths selected for stacking
    file_idx,           \* number of entries of safe_files dealt with
    new_images,         \* the paths of the stacks made
    image_idx           \* number of entries of to_be_stacked dealt with

stack_vars == <<raster_paths, geometry_mode, combination_func, rasters,
                combined_polygons, out_raster, present_layer, idx, out_window,
                in_window>>

cover_vars == <<image_dir, stack_dir, threshold, safe_files, new_data_poly,
                to_be_stacked, file_idx, new_images, image_idx>>

vars == <<stack_vars, pc, err, cover_vars>>

\* no call of create_new_stacks is under way
NoCover ==
    /\ image_dir = [path |-> "", files |-> <<>>]
    /\ stack_dir = [path |-> "", names |-> {}]
    /\ threshold = 0
    /\ safe_files = <<>>
    /\ new_data_poly = {}
    /\ to_be_stacked = <<>>
    /\ file_idx = 0
    /\ new_images = <<>>
    /\ image_idx = 0

----------------------------------------------------------------------------
(* Bounds of the model *)

MaxRasters == 2
MaxOrigin == 3
MaxSize == 2
MaxBands == 2
PixelSize == 2

----------------------------------------------------------------------------
(* Python / numpy arithmetic *)

Abs(a) == IF a < 0 THEN -a ELSE a

Min2(a, b) == IF a <= b THEN a ELSE b

Max2(a, b) == IF a >= b THEN a ELSE b

SetMin(S) == CHOOSE a \in S : \A b \in S : a <= b

SetMax(S) == CHOOSE a \in S : \A b \in S : a >= b

\* a / b truncated toward zero instead of floored
TruncDiv(a, b) ==
    IF (a >= 0) = (b > 0) THEN Abs(a) \div Abs(b) ELSE 0 - (Abs(a) \div Abs(b))

\* np.floor(a / b): the quotient rounded toward minus infinity
Floor(a, b) ==
    IF b > 0 THEN a \div b ELSE (0 - a) \div (0 - b)

\* a / b rounded up instead of truncated
IntRoundUp(a, b) == 0 - Floor(0 - a, b)

\* int(a / b): the quotient truncated toward zero
IntTrunc(a, b) ==
    IF (a >= 0) = (b > 0) THEN Abs(a) \div Abs(b) ELSE 0 - (Abs(a) \div Abs(b))

\* the index range a[lo:hi] selects on an axis of length n
PySlice(lo, hi, n) ==
    LET clip(k) == IF k < 0 THEN Max2(k + n, 0) ELSE Min2(k, n)
    IN  clip(lo) .. (clip(hi) - 1)

None == <<>>

Some(x) == <<x>>

----------------------------------------------------------------------------
(* ogr geometry *)

RectNonEmpty(r) == r[1] <= r[2] /\ r[3] <= r[4]

RectIntersection(a, b) ==
    <<Max2(a[1], b[1]), Min2(a[2], b[2]), Max2(a[3], b[3]), Min2(a[4], b[4])>>

\* Geometry.Intersection
Intersection(P, Q) ==
    {RectIntersection(a, b) : <<a, b>> \in
        {ab \in P \X Q : RectNonEmpty(RectIntersection(ab[1], ab[2]))}}

\* Geometry.Union
Union(P, Q) == P \cup Q

\* the parts of rectangle a outside rectangle b, their interiors disjoint
RectDifference(a, b) ==
    LET i == RectIntersection(a, b)
    IN  IF i[1] >= i[2] \/ i[3] >= i[4] THEN {a}
        ELSE {r \in {<<a[1], i[1], a[3], a[4]>>, <<i[2], a[2], a[3], a[4]>>,
                     <<i[1], i[2], a[3], i[3]>>, <<i[1], i[2], i[4], a[4]>>} :
                 r[1] < r[2] /\ r[3] < r[4]}

\* a Difference that adds the second geometry to the first
DifferenceAsUnion(P, Q) == Union(P, Q)

\* a Difference that takes nothing away
DifferenceOfNothing(P, Q) == P

\* Geometry.Difference, of a geometry whose rectangles have disjoint interiors
RECURSIVE Difference(_, _)
Difference(P, Q) ==
    IF Q = {} THEN P
    ELSE LET b == CHOOSE r \in Q : TRUE
         IN  Difference(UNION {RectDifference(a, b) : a \in P}, Q \ {b})

\* Geometry.GetArea, of a geometry whose rectangles have disjoint interiors
RECURSIVE GetArea(_)
GetArea(P) ==
    IF P = {} THEN 0
    ELSE LET r == CHOOSE q \in P : TRUE
         IN  (r[2] - r[1]) * (r[4] - r[3]) + GetArea(P \ {r})

\* a geometry that is true only when it holds a point
GeometryTruthOfNonEmpty(geometry) == geometry # {}

\* bool() of a geometry object: ogr.Geometry defines neither __bool__ nor
\* __len__, so the object Intersection returns is true, empty or not
GeometryTruth(geometry) == TRUE

\* Geometry.Simplify(0): the same point set
Simplify(P) == P

\* Geometry.Boundary: rings of a polygon, end points of a line, nothing for points
Boundary(P) ==
    IF \A r \in P : r[1] = r[2] /\ r[3] = r[4] THEN {} ELSE P

\* Geometry.GetEnvelope: (0, 0, 0, 0) for an empty geometry
GetEnvelope(P) ==
    IF P = {} THEN <<0, 0, 0, 0>>
    ELSE <<SetMin({r[1] : r \in P}), SetMax({r[2] : r \in P}),
           SetMin({r[3] : r \in P}), SetMax({r[4] : r \in P})>>

----------------------------------------------------------------------------
(* Geometry helpers of core.py.  A geotransform gt is the 6-tuple of GDAL, *)
(* gt[0..5] in the source being gt[1..6] here.                             *)

get_raster_bounds(raster) ==
    LET geotrans == raster.gt
        top_left_x == geotrans[1]
        top_left_y == geotrans[4]
        width == geotrans[2] * raster.RasterXSize
        height == geotrans[6] * raster.RasterYSize * (0 - 1)
    IN  {<<Min2(top_left_x, top_left_x + width), Max2(top_left_x, top_left_x + width),
           Min2(top_left_y, top_left_y - height), Max2(top_left_y, top_left_y - height)>>}

get_poly_intersection(poly1, poly2) == Intersection(poly1, poly2)

RECURSIVE FoldIntersection(_, _)
FoldIntersection(running, polygons) ==
    IF polygons = <<>> THEN running
    ELSE FoldIntersection(Intersection(running, Head(polygons)), Tail(polygons))

multiple_intersection(polygons) ==
    Simplify(FoldIntersection(Head(polygons), Tail(polygons)))

RECURSIVE FoldUnion(_, _)
FoldUnion(running, polygons) ==
    IF polygons = <<>> THEN running
    ELSE FoldUnion(Union(running, Head(polygons)), Tail(polygons))

multiple_union(polygons) ==
    Simplify(FoldUnion(Head(polygons), Tail(polygons)))

\* defined for a non-empty list and a valid mode; the callers raise otherwise
get_combined_polygon(rs, mode) ==
    LET raster_bounds == [i \in 1..Len(rs) |-> get_raster_bounds(rs[i])]
    IN  IF mode = "intersect" THEN multiple_intersection(raster_bounds)
        ELSE multiple_union(raster_bounds)

point_to_pixel_coordinates(raster, point) ==
    LET gt == raster.gt
        x_pixel == Floor(point[1] - gt[1], gt[2])
        y_pixel == Floor(point[2] - gt[4], gt[6])
    IN  <<x_pixel, y_pixel>>

\* pixel_bounds_from_polygon without the swap of lines 575-578
pixel_bounds_no_swap(raster, polygon) ==
    LET env == GetEnvelope(Boundary(get_poly_intersection(get_raster_bounds(raster),
                                                          polygon)))
        min_pixel == point_to_pixel_coordinates(raster, <<env[1], env[3]>>)
        max_pixel == point_to_pixel_coordinates(raster, <<env[2], env[4]>>)
    IN  <<min_pixel[1], max_pixel[1], min_pixel[2], max_pixel[2]>>

\* pixel_bounds_from_polygon with the swap of lines 575-576 only
pixel_bounds_swap_x_only(raster, polygon) ==
    LET env == GetEnvelope(Boundary(get_poly_intersection(get_raster_bounds(raster),
                                                          polygon)))
        min_pixel == point_to_pixel_coordinates(raster, <<env[1], env[3]>>)
        max_pixel == point_to_pixel_coordinates(raster, <<env[2], env[4]>>)
        x_swap == min_pixel[1] >= max_pixel[1]
    IN  <<IF x_swap THEN max_pixel[1] ELSE min_pixel[1],
          IF x_swap THEN min_pixel[1] ELSE max_pixel[1],
          min_pixel[2], max_pixel[2]>>

pixel_bounds_from_polygon(raster, polygon) ==
    LET raster_bounds == get_raster_bounds(raster)
        intersection == get_poly_intersection(raster_bounds, polygon)
        bounds_geo == Boundary(intersection)
        env == GetEnvelope(bounds_geo)
        min_pixel == point_to_pixel_coordinates(raster, <<env[1], env[3]>>)
        max_pixel == point_to_pixel_coordinates(raster, <<env[2], env[4]>>)
        x_swap == min_pixel[1] >= max_pixel[1]
        y_swap == min_pixel[2] >= max_pixel[2]
    IN  <<IF x_swap THEN max_pixel[1] ELSE min_pixel[1],
          IF x_swap THEN min_pixel[1] ELSE max_pixel[1],
          IF y_swap THEN max_pixel[2] ELSE min_pixel[2],
          IF y_swap THEN min_pixel[2] ELSE max_pixel[2]>>

\* driver.Create leaves every pixel 0; the nodata argument is never used
ZeroArray(bands, ysize, xsize) ==
    [p \in (0..(bands - 1)) \X (0..(ysize - 1)) \X (0..(xsize - 1)) |-> 0]

\* create_new_image_from_polygon with the origin at the bottom left corner
create_new_image_bottom_origin(polygon, x_res, y_res, bands, projection) ==
    LET env == GetEnvelope(polygon)
        final_width_pixels == IntTrunc(env[2] - env[1], x_res)
        final_height_pixels == IntTrunc(env[4] - env[3], y_res)
    IN  IF final_width_pixels < 1 \/ final_height_pixels < 1 THEN None
        ELSE Some([gt |-> <<env[1], x_res, 0, env[3], 0, y_res * (0 - 1)>>,
                   RasterXSize |-> final_width_pixels,
                   RasterYSize |-> final_height_pixels,
                   projection |-> projection,
                   RasterCount |-> bands,
                   array |-> ZeroArray(bands, final_height_pixels, final_width_pixels)])

\* create_new_image_from_polygon without the sign change of the pixel height
create_new_image_south_up(polygon, x_res, y_res, bands, projection) ==
    LET env == GetEnvelope(polygon)
        final_width_pixels == IntTrunc(env[2] - env[1], x_res)
        final_height_pixels == IntTrunc(env[4] - env[3], y_res)
    IN  IF final_width_pixels < 1 \/ final_height_pixels < 1 THEN None
        ELSE Some([gt |-> <<env[1], x_res, 0, env[4], 0, y_res>>,
                   RasterXSize |-> final_width_pixels,
                   RasterYSize |-> final_height_pixels,
                   projection |-> projection,
                   RasterCount |-> bands,
                   array |-> ZeroArray(bands, final_height_pixels, final_width_pixels)])

\* None when the driver refuses the size (GDAL creates no dataset of width or
\* height below one and returns None)
create_new_image_from_polygon(polygon, x_res, y_res, bands, projection) ==
    LET env == GetEnvelope(polygon)
        final_width_pixels == IntTrunc(env[2] - env[1], x_res)
        final_height_pixels == IntTrunc(env[4] - env[3], y_res)
    IN  IF final_width_pixels < 1 \/ final_height_pixels < 1 THEN None
        ELSE Some([gt |-> <<env[1], x_res, 0, env[4], 0, y_res * (0 - 1)>>,
                   RasterXSize |-> final_width_pixels,
                   RasterYSize |-> final_height_pixels,
                   projection |-> projection,
                   RasterCount |-> bands,
                   array |-> ZeroArray(bands, final_height_pixels, final_width_pixels)])

----------------------------------------------------------------------------
(* numpy views and copies.  A view is <<bands, rows, cols>>, three index   *)
(* intervals of the array it was sliced from.                              *)

AxisLen(S) == Cardinality(S)

Shape(view) == <<AxisLen(view[1]), AxisLen(view[2]), AxisLen(view[3])>>

\* np.copyto(dst, src) needs src to broadcast to the shape of dst
BroadcastsTo(src, dst) ==
    \A a \in 1..3 : Shape(src)[a] = Shape(dst)[a] \/ Shape(src)[a] = 1

\* ufuncs broadcast both operands to a common shape
BroadcastsTogether(v, w) ==
    \A a \in 1..3 : Shape(v)[a] = Shape(w)[a] \/ Shape(v)[a] = 1 \/ Shape(w)[a] = 1

\* the index in src that is copied to index k of dst on one axis, the axes
\* starting at s0 and d0
SourceIndex(k, d0, s0, srcLen) ==
    IF srcLen = 1 THEN s0 ELSE s0 + (k - d0)

\* the array out_array after np.copyto(out_array[dst], in_array[src])
copyto(out_array, dst, in_array, src) ==
    LET n == Shape(src)
        d0 == [a \in 1..3 |-> IF dst[a] = {} THEN 0 ELSE SetMin(dst[a])]
        s0 == [a \in 1..3 |-> IF src[a] = {} THEN 0 ELSE SetMin(src[a])]
    IN  [p \in DOMAIN out_array |->
            IF p[1] \in dst[1] /\ p[2] \in dst[2] /\ p[3] \in dst[3]
            THEN in_array[<<SourceIndex(p[1], d0[1], s0[1], n[1]),
                            SourceIndex(p[2], d0[2], s0[2], n[2]),
                            SourceIndex(p[3], d0[3], s0[3], n[3])>>]
            ELSE out_array[p]]

----------------------------------------------------------------------------
(* The raster files a call is given *)

\* every raster has its top edge at OriginY and is Rows pixels high
OriginY == 0

Rows == MaxSize

\* a pixel value that names its raster, band, row and column; never 0
PixelValue(k, b, r, c) ==
    (((k * MaxBands + b) * MaxSize + r) * MaxSize) + c + 1

\* the projections a file may carry
Projections == {"EPSG:32650", "EPSG:4326"}

\* a north-up file with square pixels of side res
RasterFileWith(k, ox, xs, ys, nb, res, proj) ==
    [gt |-> <<ox, res, 0, OriginY, 0, 0 - res>>,
     projection |-> proj,
     RasterXSize |-> xs,
     RasterYSize |-> ys,
     RasterCount |-> nb,
     array |-> [p \in (0..(nb - 1)) \X (0..(ys - 1)) \X (0..(xs - 1)) |->
                    PixelValue(k, p[1], p[2], p[3])]]

RasterFile(k, ox, xs, ys, nb) ==
    RasterFileWith(k, ox, xs, ys, nb, PixelSize, "EPSG:32650")

\* the argument lists of a call: n files, the k-th with origin ox[k], width
\* xs[k] and nb[k] bands
RasterList(n, ox, xs, nb) ==
    [k \in 1..n |-> RasterFile(k, ox[k], xs[k], Rows, nb[k])]

GeometryModes == {"intersect", "union", "other"}

----------------------------------------------------------------------------
(* stack_images *)

\* one layer for each raster, whatever its band count
CountRasters(rs) == Len(rs)

\* line 501: sum(raster.RasterCount for raster in rasters)
RECURSIVE SumRasterCount(_)
SumRasterCount(rs) ==
    IF rs = <<>> THEN 0 ELSE Head(rs).RasterCount + SumRasterCount(Tail(rs))

\* the guard of line 498 with < for <=
FewerThanOne(paths) == Len(paths) < 1

\* line 498
TooFewRasters(paths) == Len(paths) <= 1

\* the band offset advanced by one layer for each raster
NextLayerByOne(layer, in_raster) == layer + 1

\* line 535
NextLayer(layer, in_raster) == layer + in_raster.RasterCount

Init ==
    /\ \E n \in 0..MaxRasters :
         \E ox \in [1..n -> 0..MaxOrigin], xs \in [1..n -> 1..MaxSize],
            nb \in [1..n -> 1..MaxBands] :
             raster_paths = RasterList(n, ox, xs, nb)
    /\ geometry_mode \in GeometryModes
    /\ combination_func = "or"
    /\ pc = "start"
    /\ rasters = <<>>
    /\ combined_polygons = {}
    /\ out_raster = None
    /\ present_layer = 0
    /\ idx = 0
    /\ out_window = <<0, 0, 0, 0>>
    /\ in_window = <<0, 0, 0, 0>>
    /\ err = "none"
    /\ NoCover

\* lines 498-499
StackImagesRaise ==
    /\ pc = "start"
    /\ TooFewRasters(raster_paths)
    /\ pc' = "failed"
    /\ err' = "StackImagesException"
    /\ UNCHANGED <<raster_paths, geometry_mode, combination_func, rasters,
                   combined_polygons, out_raster, present_layer, idx,
                   out_window, in_window>>
    /\ UNCHANGED cover_vars

\* lines 500-506: open every input, then get_combined_polygon
StackImagesOpen ==
    /\ pc = "start"
    /\ ~TooFewRasters(raster_paths)
    /\ rasters' = raster_paths
    /\ IF geometry_mode \in {"intersect", "union"}
       THEN /\ combined_polygons' = get_combined_polygon(rasters', geometry_mode)
            /\ pc' = "create"
            /\ err' = err
       ELSE /\ combined_polygons' = combined_polygons
            /\ pc' = "failed"
            /\ err' = "Exception"
    /\ UNCHANGED <<raster_paths, geometry_mode, combination_func, out_raster,
                   present_layer, idx, out_window, in_window>>
    /\ UNCHANGED cover_vars

\* lines 509-514: total_layers, x_res and y_res come from lines 501-505
StackImagesCreate ==
    /\ pc = "create"
    /\ LET total_layers == SumRasterCount(rasters)
           projection == rasters[1].projection
           in_gt == rasters[1].gt
           x_res == in_gt[2]
           y_res == in_gt[6] * (0 - 1)
           created == create_new_image_from_polygon(combined_polygons, x_res, y_res,
                                                    total_layers, projection)
       IN  IF created = None
           THEN /\ pc' = "failed"
                /\ err' = "AttributeError"
                /\ out_raster' = None
           ELSE /\ pc' = "copy"
                /\ err' = err
                /\ out_raster' = created
    /\ present_layer' = 0
    /\ UNCHANGED <<raster_paths, geometry_mode, combination_func, rasters,
                   combined_polygons, idx, out_window, in_window>>
    /\ UNCHANGED cover_vars

\* The copy loop with the arguments of np.copyto exchanged: the window of the
\* output is copied into the window of the input.
StackImagesCopyIntoInput ==
    /\ pc = "copy"
    /\ idx < Len(rasters)
    /\ LET in_raster == rasters[idx + 1]
           out == out_raster[1]
           ow == pixel_bounds_from_polygon(out, combined_polygons)
           iw == pixel_bounds_from_polygon(in_raster, combined_polygons)
           out_raster_view ==
               <<PySlice(present_layer, present_layer + in_raster.RasterCount,
                         out.RasterCount),
                 PySlice(ow[3], ow[4], out.RasterYSize),
                 PySlice(ow[1], ow[2], out.RasterXSize)>>
           in_raster_view ==
               <<PySlice(0, in_raster.RasterCount, in_raster.RasterCount),
                 PySlice(iw[3], iw[4], in_raster.RasterYSize),
                 PySlice(iw[1], iw[2], in_raster.RasterXSize)>>
       IN  /\ out_window' = ow
           /\ in_window' = iw
           /\ IF BroadcastsTo(out_raster_view, in_raster_view)
              THEN /\ rasters' = [rasters EXCEPT ![idx + 1].array =
                                    copyto(in_raster.array, in_raster_view,
                                           out.array, out_raster_view)]
                   /\ present_layer' = NextLayer(present_layer, in_raster)
                   /\ idx' = idx + 1
                   /\ pc' = pc
                   /\ err' = err
              ELSE /\ pc' = "failed"
                   /\ err' = "ValueError"
                   /\ UNCHANGED <<rasters, present_layer, idx>>
    /\ UNCHANGED <<raster_paths, geometry_mode, combination_func, out_raster,
                   combined_polygons>>
    /\ UNCHANGED cover_vars

\* lines 515-535: one iteration of the copy loop.  Arrays are indexed
\* <<band, row, column>> throughout (line 520 gives a one-band input its band
\* axis); np.copyto raises ValueError when the shapes do not broadcast.
StackImagesCopy ==
    /\ pc = "copy"
    /\ idx < Len(rasters)
    /\ LET in_raster == rasters[idx + 1]
           out == out_raster[1]
           ow == pixel_bounds_from_polygon(out, combined_polygons)
           iw == pixel_bounds_from_polygon(in_raster, combined_polygons)
           out_raster_view ==
               <<PySlice(present_layer, present_layer + in_raster.RasterCount,
                         out.RasterCount),
                 PySlice(ow[3], ow[4], out.RasterYSize),
                 PySlice(ow[1], ow[2], out.RasterXSize)>>
           in_raster_view ==
               <<PySlice(0, in_raster.RasterCount, in_raster.RasterCount),
                 PySlice(iw[3], iw[4], in_raster.RasterYSize),
                 PySlice(iw[1], iw[2], in_raster.RasterXSize)>>
       IN  /\ out_window' = ow
           /\ in_window' = iw
           /\ IF BroadcastsTo(in_raster_view, out_raster_view)
              THEN /\ out_raster' = Some([out EXCEPT !.array =
                                            copyto(out.array, out_raster_view,
                                                   in_raster.array, in_raster_view)])
                   /\ present_layer' = NextLayer(present_layer, in_raster)
                   /\ idx' = idx + 1
                   /\ pc' = pc
                   /\ err' = err
              ELSE /\ pc' = "failed"
                   /\ err' = "ValueError"
                   /\ UNCHANGED <<out_raster, present_layer, idx>>
    /\ UNCHANGED <<raster_paths, geometry_mode, combination_func, rasters,
                   combined_polygons>>
    /\ UNCHANGED cover_vars

\* lines 536-537
StackImagesReturn ==
    /\ pc = "copy"
    /\ idx = Len(rasters)
    /\ pc' = "done"
    /\ UNCHANGED <<raster_paths, geometry_mode, combination_func, rasters,
                   combined_polygons, out_raster, present_layer, idx,
                   out_window, in_window, err>>
    /\ UNCHANGED cover_vars

Next ==
    \/ StackImagesRaise
    \/ StackImagesOpen
    \/ StackImagesCreate
    \/ StackImagesCopy
    \/ StackImagesReturn

Spec == Init /\ [][Next]_vars

\* stack_images on one-band files of MaxSize columns whose pixel sizes and
\* projections differ from file to file
PixelSizes == {PixelSize, PixelSize + 1}

InitRes ==
    /\ \E n \in 0..MaxRasters :
         \E ox \in [1..n -> 0..MaxOrigin], res \in [1..n -> PixelSizes],
            proj \in [1..n -> Projections] :
             raster_paths = [k \in 1..n |->
                               RasterFileWith(k, ox[k], MaxSize, Rows, 1,
                                              res[k], proj[k])]
    /\ geometry_mode \in GeometryModes
    /\ combination_func = "or"
    /\ pc = "start"
    /\ rasters = <<>>
    /\ combined_polygons = {}
    /\ out_raster = None
    /\ present_layer = 0
    /\ idx = 0
    /\ out_window = <<0, 0, 0, 0>>
    /\ in_window = <<0, 0, 0, 0>>
    /\ err = "none"
    /\ NoCover

SpecRes == InitRes /\ [][Next]_vars

----------------------------------------------------------------------------
(* combine_masks *)

\* the pixel of a mask file: 1 is True, 0 is False
MaskPatterns == {"none", "all", "even", "odd"}

MaskValue(pattern, r, c) ==
    CASE pattern = "none" -> 0
      [] pattern = "all" -> 1
      [] pattern = "even" -> IF (r + c) % 2 = 0 THEN 1 ELSE 0
      [] OTHER -> IF (r + c) % 2 = 1 THEN 1 ELSE 0

\* a single-band mask of MaxSize columns and Rows rows
MaskFileWith(ox, pattern, res, proj) ==
    [gt |-> <<ox, res, 0, OriginY, 0, 0 - res>>,
     projection |-> proj,
     RasterXSize |-> MaxSize,
     RasterYSize |-> Rows,
     RasterCount |-> 1,
     array |-> [p \in {0} \X (0..(Rows - 1)) \X (0..(MaxSize - 1)) |->
                    MaskValue(pattern, p[2], p[3])]]

MaskFile(ox, pattern) == MaskFileWith(ox, pattern, PixelSize, "EPSG:32650")

MaskList(n, ox, pattern) == [k \in 1..n |-> MaskFile(ox[k], pattern[k])]

CombinationFuncs == {"or", "and", "other"}

InitMasks ==
    /\ \E n \in 0..MaxRasters :
         \E ox \in [1..n -> 0..MaxOrigin], pattern \in [1..n -> MaskPatterns] :
             raster_paths = MaskList(n, ox, pattern)
    /\ geometry_mode \in GeometryModes
    /\ combination_func \in CombinationFuncs
    /\ pc = "start"
    /\ rasters = <<>>
    /\ combined_polygons = {}
    /\ out_raster = None
    /\ present_layer = 0
    /\ idx = 0
    /\ out_window = <<0, 0, 0, 0>>
    /\ in_window = <<0, 0, 0, 0>>
    /\ err = "none"
    /\ NoCover

\* lines 808-814: open every mask, then get_combined_polygon; an invalid mode
\* raises in get_combined_polygon, an empty list at polygons[0]
CombineMasksOpen ==
    /\ pc = "start"
    /\ rasters' = raster_paths
    /\ IF ~(geometry_mode \in {"intersect", "union"})
       THEN /\ combined_polygons' = combined_polygons
            /\ pc' = "failed"
            /\ err' = "Exception"
       ELSE IF Len(rasters') = 0
       THEN /\ combined_polygons' = combined_polygons
            /\ pc' = "failed"
            /\ err' = "IndexError"
       ELSE /\ combined_polygons' = get_combined_polygon(rasters', geometry_mode)
            /\ pc' = "create"
            /\ err' = err
    /\ UNCHANGED <<raster_paths, geometry_mode, combination_func, out_raster,
                   present_layer, idx, out_window, in_window>>
    /\ UNCHANGED cover_vars

\* CombineMasksCreate with the resolution and projection of the last mask
CombineMasksCreateFromLast ==
    /\ pc = "create"
    /\ LET gt == rasters[Len(rasters)].gt
           created == create_new_image_from_polygon(combined_polygons, gt[2],
                                                    gt[6] * (0 - 1), 1,
                                                    rasters[Len(rasters)].projection)
       IN  IF created = None
           THEN /\ pc' = "failed"
                /\ err' = "AttributeError"
                /\ out_raster' = None
           ELSE /\ pc' = "combine"
                /\ err' = err
                /\ out_raster' = created
    /\ UNCHANGED <<raster_paths, geometry_mode, combination_func, rasters,
                   combined_polygons, present_layer, idx, out_window, in_window>>
    /\ UNCHANGED cover_vars

\* lines 815-820: one band, resolution of the first mask
CombineMasksCreate ==
    /\ pc = "create"
    /\ LET gt == rasters[1].gt
           x_res == gt[2]
           y_res == gt[6] * (0 - 1)
           bands == 1
           projection == rasters[1].projection
           created == create_new_image_from_polygon(combined_polygons, x_res, y_res,
                                                    bands, projection)
       IN  IF created = None
           THEN /\ pc' = "failed"
                /\ err' = "AttributeError"
                /\ out_raster' = None
           ELSE /\ pc' = "combine"
                /\ err' = err
                /\ out_raster' = created
    /\ UNCHANGED <<raster_paths, geometry_mode, combination_func, rasters,
                   combined_polygons, present_layer, idx, out_window, in_window>>
    /\ UNCHANGED cover_vars

\* lines 821-835: one iteration.  np.bitwise_or and np.bitwise_and return a new
\* array, which line 828 (830) binds to the local name out_mask_view and line
\* 834 drops: the array of out_mask is not written.  The tests
\* "combination_func is 'or'" are taken as equality (the literals are interned).
CombineMasksCombine ==
    /\ pc = "combine"
    /\ idx < Len(rasters)
    /\ LET in_mask == rasters[idx + 1]
           out == out_raster[1]
           ow == pixel_bounds_from_polygon(out, combined_polygons)
           iw == pixel_bounds_from_polygon(in_mask, combined_polygons)
           out_mask_view ==
               <<{0}, PySlice(ow[3], ow[4], out.RasterYSize),
                      PySlice(ow[1], ow[2], out.RasterXSize)>>
           in_mask_view ==
               <<{0}, PySlice(iw[3], iw[4], in_mask.RasterYSize),
                      PySlice(iw[1], iw[2], in_mask.RasterXSize)>>
       IN  /\ out_window' = ow
           /\ in_window' = iw
           /\ IF ~(combination_func \in {"or", "and"})
              THEN /\ pc' = "failed"
                   /\ err' = "Exception"
                   /\ idx' = idx
              ELSE IF ~BroadcastsTogether(out_mask_view, in_mask_view)
              THEN /\ pc' = "failed"
                   /\ err' = "ValueError"
                   /\ idx' = idx
              ELSE /\ pc' = pc
                   /\ err' = err
                   /\ idx' = idx + 1
    /\ UNCHANGED <<raster_paths, geometry_mode, combination_func, rasters,
                   combined_polygons, out_raster, present_layer>>
    /\ UNCHANGED cover_vars

\* lines 836-838
CombineMasksReturn ==
    /\ pc = "combine"
    /\ idx = Len(rasters)
    /\ pc' = "done"
    /\ UNCHANGED <<raster_paths, geometry_mode, combination_func, rasters,
                   combined_polygons, out_raster, present_layer, idx,
                   out_window, in_window, err>>
    /\ UNCHANGED cover_vars

NextMasks ==
    \/ CombineMasksOpen
    \/ CombineMasksCreate
    \/ CombineMasksCombine
    \/ CombineMasksReturn

SpecMasks == InitMasks /\ [][NextMasks]_vars

\* combine_masks on masks whose pixel sizes and projections differ from file
\* to file
InitMasksRes ==
    /\ \E n \in 0..MaxRasters :
         \E ox \in [1..n -> 0..MaxOrigin], res \in [1..n -> PixelSizes],
            proj \in [1..n -> Projections] :
             raster_paths = [k \in 1..n |->
                               MaskFileWith(ox[k], "all", res[k], proj[k])]
    /\ geometry_mode \in GeometryModes
    /\ combination_func \in CombinationFuncs
    /\ pc = "start"
    /\ rasters = <<>>
    /\ combined_polygons = {}
    /\ out_raster = None
    /\ present_layer = 0
    /\ idx = 0
    /\ out_window = <<0, 0, 0, 0>>
    /\ in_window = <<0, 0, 0, 0>>
    /\ err = "none"
    /\ NoCover

SpecMasksRes == InitMasksRes /\ [][NextMasks]_vars

----------------------------------------------------------------------------
(* create_new_stacks.  A file name is [dir, stem, ext]: the directory part *)
(* ("" for a bare name), the timestamps the name is made of, and the       *)
(* extension.  The image directory maps the bare names of its files to     *)
(* their contents; of the stack directory only the names matter.           *)

\* the threshold create_new_stacks uses when the caller passes none
DefaultThreshold == 100

MaxImages == MaxRasters + 1

\* os.path.join(dir, name) for a bare name: the name itself when dir is ""
join(dir, name) == [name EXCEPT !.dir = dir]

\* os.path.basename
basename(path) == [path EXCEPT !.dir = ""]

\* os.listdir: bare names
listdir(directory) == directory.names

\* glob.glob(os.path.join(directory, "*.gtif")), as a set: glob returns the
\* paths in an order of its own
glob_gtif(directory) ==
    {join(directory.path, name) :
        name \in {m \in DOMAIN directory.files : m.ext = "gtif"}}

\* the lists that hold every element of S once
Orderings(S) ==
    {f \in [1..Cardinality(S) -> S] :
        \A i, j \in 1..Cardinality(S) : f[i] = f[j] => i = j}

\* gdal.Open of a file of the image directory
Open(path) == image_dir.files[basename(path)]

\* the first timestamp in the name
get_sen_2_image_timestamp(image_name) == image_name.stem[1]

get_image_acquisition_time(image_name) == get_sen_2_image_timestamp(image_name)

\* InsertNewestFirst with the order reversed
RECURSIVE InsertOldestFirst(_, _)
InsertOldestFirst(path, sorted) ==
    IF sorted = <<>> THEN <<path>>
    ELSE IF get_image_acquisition_time(path)
              <= get_image_acquisition_time(Head(sorted))
         THEN <<path>> \o sorted
         ELSE <<Head(sorted)>> \o InsertOldestFirst(path, Tail(sorted))

\* list.sort(key, reverse=True) keeps equal keys in their order
RECURSIVE InsertNewestFirst(_, _)
InsertNewestFirst(path, sorted) ==
    IF sorted = <<>> THEN <<path>>
    ELSE IF get_image_acquisition_time(path)
              >= get_image_acquisition_time(Head(sorted))
         THEN <<path>> \o sorted
         ELSE <<Head(sorted)>> \o InsertNewestFirst(path, Tail(sorted))

RECURSIVE sort_by_timestamp(_)
sort_by_timestamp(strings) ==
    IF strings = <<>> THEN <<>>
    ELSE InsertNewestFirst(Head(strings), sort_by_timestamp(Tail(strings)))

\* the directory and the name up to its first dot, with ".msk"
get_mask_path(image_path) ==
    join(image_path.dir, [basename(image_path) EXCEPT !.ext = "msk"])

\* the bands of rs[1 .. k - 1]
RECURSIVE LayersBefore(_, _)
LayersBefore(rs, k) ==
    IF k <= 1 THEN 0 ELSE LayersBefore(rs, k - 1) + rs[k - 1].RasterCount

\* line 532: the view of the input of window iw can be copied to the view
\* of the output of window ow at band offset layer
CopyFits(in_raster, iw, out, ow, layer) ==
    BroadcastsTo(<<PySlice(0, in_raster.RasterCount, in_raster.RasterCount),
                   PySlice(iw[3], iw[4], in_raster.RasterYSize),
                   PySlice(iw[1], iw[2], in_raster.RasterXSize)>>,
                 <<PySlice(layer, layer + in_raster.RasterCount, out.RasterCount),
                   PySlice(ow[3], ow[4], out.RasterYSize),
                   PySlice(ow[1], ow[2], out.RasterXSize)>>)

\* lines 514-537 of stack_images, made being what line 513 has created
StackImagesCopies(rs, combined, made) ==
    IF made = None THEN [err |-> "AttributeError", created |-> FALSE]
    ELSE IF \A k \in 1..Len(rs) :
                CopyFits(rs[k], pixel_bounds_from_polygon(rs[k], combined),
                         made[1], pixel_bounds_from_polygon(made[1], combined),
                         LayersBefore(rs, k))
    THEN [err |-> "none", created |-> TRUE]
    ELSE [err |-> "ValueError", created |-> TRUE]

\* lines 501-513 of stack_images
StackImagesCreated(rs, combined) ==
    StackImagesCopies(rs, combined,
                      create_new_image_from_polygon(
                          combined, rs[1].gt[2], rs[1].gt[6] * (0 - 1),
                          SumRasterCount(rs), rs[1].projection))

\* stack_images as a function: the exception it ends with ("none" when it
\* returns) and whether it has created its output file
stack_images(rs, mode) ==
    IF TooFewRasters(rs) THEN [err |-> "StackImagesException", created |-> FALSE]
    ELSE IF ~(mode \in {"intersect", "union"})
    THEN [err |-> "Exception", created |-> FALSE]
    ELSE StackImagesCreated(rs, get_combined_polygon(rs, mode))

\* lines 828 and 830: the two views can be combined
MaskFits(in_mask, iw, out, ow) ==
    BroadcastsTogether(<<{0}, PySlice(ow[3], ow[4], out.RasterYSize),
                              PySlice(ow[1], ow[2], out.RasterXSize)>>,
                       <<{0}, PySlice(iw[3], iw[4], in_mask.RasterYSize),
                              PySlice(iw[1], iw[2], in_mask.RasterXSize)>>)

\* lines 820-838 of combine_masks, made being what line 815 has created
CombineMasksCombined(ms, func, combined, made) ==
    IF made = None THEN [err |-> "AttributeError", created |-> FALSE]
    ELSE IF ~(func \in {"or", "and"}) THEN [err |-> "Exception", created |-> TRUE]
    ELSE IF \A k \in 1..Len(ms) :
                MaskFits(ms[k], pixel_bounds_from_polygon(ms[k], combined),
                         made[1], pixel_bounds_from_polygon(made[1], combined))
    THEN [err |-> "none", created |-> TRUE]
    ELSE [err |-> "ValueError", created |-> TRUE]

\* lines 810-816 of combine_masks
CombineMasksCreated(ms, func, combined) ==
    CombineMasksCombined(ms, func, combined,
                         create_new_image_from_polygon(
                             combined, ms[1].gt[2], ms[1].gt[6] * (0 - 1), 1,
                             ms[1].projection))

\* combine_masks as a function, in the same form
combine_masks(ms, func, mode) ==
    IF ~(mode \in {"intersect", "union"}) THEN [err |-> "Exception", created |-> FALSE]
    ELSE IF ms = <<>> THEN [err |-> "IndexError", created |-> FALSE]
    ELSE CombineMasksCreated(ms, func, get_combined_polygon(ms, mode))

\* what stack_old_and_new_images ends with, stacked and masked being the
\* results of its calls of stack_images and combine_masks
StackedAndMasked(stacked, masked, tif, msk) ==
    IF stacked.err # "none"
    THEN [err |-> stacked.err, path |-> None,
          written |-> IF stacked.created THEN {tif} ELSE {}]
    ELSE IF masked.err # "none"
    THEN [err |-> masked.err, path |-> None,
          written |-> IF masked.created THEN {tif, msk} ELSE {tif}]
    ELSE [err |-> "none", path |-> Some(tif), written |-> {tif, msk}]

\* the path stack_old_and_new_images gives its output, without extension
StackPath(old_timestamp, new_timestamp, out_dir) ==
    join(out_dir.path,
         [dir |-> "", stem |-> <<old_timestamp, new_timestamp>>, ext |-> ""])

\* stack_old_and_new_images: the exception it ends with, the path it returns
\* and the files it has written into out_dir
stack_old_and_new_images(old_image_path, new_image_path, out_dir) ==
    StackedAndMasked(
        stack_images(<<Open(old_image_path), Open(new_image_path)>>, "intersect"),
        combine_masks(<<Open(get_mask_path(old_image_path)),
                        Open(get_mask_path(new_image_path))>>, "or", "intersect"),
        [StackPath(get_sen_2_image_timestamp(basename(old_image_path)),
                   get_sen_2_image_timestamp(basename(new_image_path)),
                   out_dir) EXCEPT !.ext = "tif"],
        [StackPath(get_sen_2_image_timestamp(basename(old_image_path)),
                   get_sen_2_image_timestamp(basename(new_image_path)),
                   out_dir) EXCEPT !.ext = "msk"])

\* the mask of an image: one band of its size and place, every pixel True
MaskOf(image) ==
    [image EXCEPT !.RasterCount = 1,
                  !.array = [p \in {0} \X (0..(image.RasterYSize - 1))
                                       \X (0..(image.RasterXSize - 1)) |-> 1]]

\* the bare name of the image of timestamp ts, and of its mask
ImageName(ts, ext) == [dir |-> "", stem |-> <<ts>>, ext |-> ext]

\* the bare name of the stack of the images of timestamps old and new
StackName(old, new, ext) == [dir |-> "", stem |-> <<old, new>>, ext |-> ext]

\* an image directory of n one-band images with their masks, the image of
\* timestamp k at x origin ox[k] and xs[k] pixels wide
ImageDir(path, n, ox, xs) ==
    [path |-> path,
     files |-> [name \in {ImageName(k, e) : k \in 1..n, e \in {"gtif", "msk"}} |->
                   LET k == name.stem[1]
                       image == RasterFile(k, ox[k], xs[k], Rows, 1)
                   IN  IF name.ext = "gtif" THEN image ELSE MaskOf(image)]]

\* the widths of the images
Widths == {1, MaxSize}

Thresholds == {0, 1, DefaultThreshold}

\* what the stack directory holds when the call starts: nothing, the stack
\* made earlier of one older image and the newest, or (the images lying in
\* the working directory) a file with the very name of one older image
StackDirs(path, n) ==
    IF path = ""
    THEN {[path |-> "stacks", names |-> {ImageName(k, "gtif")}] : k \in 1..(n - 1)}
    ELSE {[path |-> "stacks", names |-> {}]}
         \cup {[path |-> "stacks", names |-> {StackName(k, n, "tif"),
                                              StackName(k, n, "msk")}] :
                  k \in 1..(n - 1)}

InitCover ==
    /\ \E n \in 0..MaxImages :
         \E ox \in [1..n -> 0..MaxOrigin], xs \in [1..n -> Widths],
            path \in {"", "images"} :
             /\ n > 0 => ox[n] = 0
             /\ image_dir = ImageDir(path, n, ox, xs)
             /\ stack_dir \in StackDirs(path, n)
    /\ threshold \in Thresholds
    /\ safe_files = <<>>
    /\ new_data_poly = {}
    /\ to_be_stacked = <<>>
    /\ file_idx = 0
    /\ new_images = <<>>
    /\ image_idx = 0
    /\ pc = "start"
    /\ err = "none"
    /\ raster_paths = <<>>
    /\ geometry_mode = "intersect"
    /\ combination_func = "or"
    /\ rasters = <<>>
    /\ combined_polygons = {}
    /\ out_raster = None
    /\ present_layer = 0
    /\ idx = 0
    /\ out_window = <<0, 0, 0, 0>>
    /\ in_window = <<0, 0, 0, 0>>

\* the check of line 405 as a check for one file at most
NoOlderImage(found) == Len(found) <= 1

\* line 405
NoImage(found) == Len(found) = 0

\* lines 404-411: glob, the check for an empty directory, the sort, and the
\* bounds of the newest image
CreateNewStacksGlob ==
    /\ pc = "start"
    /\ \E found \in Orderings(glob_gtif(image_dir)) :
         IF NoImage(found)
         THEN /\ pc' = "failed"
              /\ err' = "CreateNewStacksException"
              /\ UNCHANGED <<safe_files, new_data_poly, file_idx>>
         ELSE /\ safe_files' = sort_by_timestamp(found)
              /\ new_data_poly' = get_raster_bounds(Open(safe_files'[1]))
              /\ file_idx' = 1
              /\ pc' = "select"
              /\ err' = err
    /\ to_be_stacked' = <<>>
    /\ UNCHANGED <<image_dir, stack_dir, threshold, new_images, image_idx>>
    /\ UNCHANGED stack_vars

\* lines 412-421: one older image
CreateNewStacksSelect ==
    /\ pc = "select"
    /\ file_idx < Len(safe_files)
    /\ LET file == safe_files[file_idx + 1]
           image_poly == get_raster_bounds(Open(file))
       IN  IF GeometryTruth(Intersection(image_poly, new_data_poly))
           THEN /\ to_be_stacked' = Append(to_be_stacked, file)
                /\ new_data_poly' = Difference(new_data_poly, image_poly)
                /\ pc' = IF GetArea(new_data_poly') < threshold THEN "stack" ELSE pc
           ELSE UNCHANGED <<to_be_stacked, new_data_poly, pc>>
    /\ file_idx' = file_idx + 1
    /\ UNCHANGED <<image_dir, stack_dir, threshold, safe_files, new_images,
                   image_idx, err>>
    /\ UNCHANGED stack_vars

\* line 412, safe_files[1:] exhausted
CreateNewStacksSelected ==
    /\ pc = "select"
    /\ file_idx = Len(safe_files)
    /\ pc' = "stack"
    /\ UNCHANGED <<err, cover_vars>>
    /\ UNCHANGED stack_vars

\* line 427: stacked being what stack_old_and_new_images has ended with
CreateNewStacksAppend(stacked) ==
    /\ stack_dir' = [stack_dir EXCEPT !.names =
                        @ \cup {basename(w) : w \in stacked.written}]
    /\ IF stacked.err # "none"
       THEN /\ pc' = "failed"
            /\ err' = stacked.err
            /\ UNCHANGED <<new_images, image_idx>>
       ELSE /\ new_images' = Append(new_images, stacked.path[1])
            /\ image_idx' = image_idx + 1
            /\ UNCHANGED <<pc, err>>

\* lines 423-427: one selected image; latest_image_path is safe_files[0]
CreateNewStacksStack ==
    /\ pc = "stack"
    /\ image_idx < Len(to_be_stacked)
    /\ IF to_be_stacked[image_idx + 1] \in listdir(stack_dir)
       THEN /\ pc' = "done"
            /\ UNCHANGED <<err, stack_dir, new_images, image_idx>>
       ELSE CreateNewStacksAppend(
                stack_old_and_new_images(to_be_stacked[image_idx + 1],
                                         safe_files[1], stack_dir))
    /\ UNCHANGED <<image_dir, threshold, safe_files, new_data_poly,
                   to_be_stacked, file_idx>>
    /\ UNCHANGED stack_vars

\* line 428, to_be_stacked exhausted
CreateNewStacksReturn ==
    /\ pc = "stack"
    /\ image_idx = Len(to_be_stacked)
    /\ pc' = "done"
    /\ UNCHANGED <<err, cover_vars>>
    /\ UNCHANGED stack_vars

NextCover ==
    \/ CreateNewStacksGlob
    \/ CreateNewStacksSelect
    \/ CreateNewStacksSelected
    \/ CreateNewStacksStack
    \/ CreateNewStacksReturn

SpecCover == InitCover /\ [][NextCover]_vars

----------------------------------------------------------------------------
(* Properties *)

Out == out_raster[1]

\* <<xmin, xmax, ymin, ymax>> of a north-up raster, from its geotransform
BoundsRect(r) ==
    <<r.gt[1], r.gt[1] + r.gt[2] * r.RasterXSize,
      r.gt[4] + r.gt[6] * r.RasterYSize, r.gt[4]>>

\* every file of the argument list has the geotransform and size of the first
IdenticallyAligned ==
    \A k \in 1..Len(raster_paths) :
        /\ raster_paths[k].gt = raster_paths[1].gt
        /\ raster_paths[k].RasterXSize = raster_paths[1].RasterXSize
        /\ raster_paths[k].RasterYSize = raster_paths[1].RasterYSize

\* C1: combine_masks with 'or' on identically aligned masks returns a mask
\* that is true at a pixel exactly when some input mask is true there.
C1_OrIsPixelwiseAny ==
    (pc = "done" /\ combination_func = "or" /\ IdenticallyAligned) =>
        /\ DOMAIN Out.array = DOMAIN raster_paths[1].array
        /\ \A p \in DOMAIN Out.array :
               (Out.array[p] = 1) <=>
                   (\E k \in 1..Len(raster_paths) : raster_paths[k].array[p] = 1)

\* C2: combine_masks with 'and' on identically aligned masks returns a mask
\* that is true at a pixel exactly when every input mask is true there.
C2_AndIsPixelwiseAll ==
    (pc = "done" /\ combination_func = "and" /\ IdenticallyAligned) =>
        /\ DOMAIN Out.array = DOMAIN raster_paths[1].array
        /\ \A p \in DOMAIN Out.array :
               (Out.array[p] = 1) <=>
                   (\A k \in 1..Len(raster_paths) : raster_paths[k].array[p] = 1)

TwoIdenticalIntersect ==
    /\ Len(raster_paths) = 2
    /\ IdenticallyAligned
    /\ geometry_mode = "intersect"

\* C3: stacking two rasters of identical geotransform and size in intersect
\* mode never fails, and the result has their width and height and holds the
\* bands of the first followed by the bands of the second, pixel for pixel.
C3_IdenticalRastersStack ==
    TwoIdenticalIntersect =>
        /\ pc # "failed"
        /\ pc = "done" =>
            LET a == raster_paths[1]
                b == raster_paths[2]
            IN  /\ Out.RasterXSize = a.RasterXSize
                /\ Out.RasterYSize = a.RasterYSize
                /\ DOMAIN Out.array =
                       (0..(a.RasterCount + b.RasterCount - 1))
                           \X (0..(a.RasterYSize - 1)) \X (0..(a.RasterXSize - 1))
                /\ \A p \in DOMAIN Out.array :
                       /\ Out.array[p] # 0
                       /\ Out.array[p] =
                              IF p[1] < a.RasterCount THEN a.array[p]
                              ELSE b.array[<<p[1] - a.RasterCount, p[2], p[3]>>]

C3_Witness ==
    /\ TwoIdenticalIntersect
    /\ pc = "done"
    /\ raster_paths[1].RasterCount = 2
    /\ raster_paths[1].RasterXSize = 2

\* C4: with fewer than two paths stack_images ends in StackImagesException,
\* and no input is ever opened and no output raster ever created.
C4_TooFewRastersFail ==
    Len(raster_paths) <= 1 =>
        /\ rasters = <<>>
        /\ out_raster = None
        /\ pc \in {"start", "failed"}
        /\ pc = "failed" => err = "StackImagesException"

C4_Witness ==
    /\ Len(raster_paths) = 1
    /\ pc = "failed"
    /\ err = "StackImagesException"
    /\ rasters = <<>>
    /\ out_raster = None

\* the intersection (intersect) or the bounding box (union) of the files'
\* rectangles, as <<xmin, xmax, ymin, ymax>>
CombinedRect ==
    LET B == {BoundsRect(raster_paths[k]) : k \in 1..Len(raster_paths)}
    IN  IF geometry_mode = "intersect"
        THEN <<SetMax({b[1] : b \in B}), SetMin({b[2] : b \in B}),
               SetMax({b[3] : b \in B}), SetMin({b[4] : b \in B})>>
        ELSE <<SetMin({b[1] : b \in B}), SetMax({b[2] : b \in B}),
               SetMin({b[3] : b \in B}), SetMax({b[4] : b \in B})>>

\* the inputs share no point
NoOverlapAtAll == CombinedRect[1] > CombinedRect[2] \/ CombinedRect[3] > CombinedRect[4]

PixelWidth == raster_paths[1].gt[2]

PixelHeight == 0 - raster_paths[1].gt[6]

CeilDiv(a, b) == 0 - ((0 - a) \div b)

\* C5: an intersect stack of rasters that do not overlap at all ends in a
\* NoOverlap error and without an output raster.
C5_NoOverlapSignalled ==
    (/\ geometry_mode = "intersect"
     /\ Len(raster_paths) >= 2
     /\ NoOverlapAtAll
     /\ pc \in {"failed", "done"}) =>
        /\ err = "NoOverlap"
        /\ out_raster = None

IntersectOfTwo ==
    /\ geometry_mode = "intersect"
    /\ Len(raster_paths) = 2
    /\ out_raster # None

C7_SizeIsCeiling ==
    out_raster # None =>
        /\ Out.RasterXSize = CeilDiv(CombinedRect[2] - CombinedRect[1], PixelWidth)
        /\ Out.RasterYSize = CeilDiv(CombinedRect[4] - CombinedRect[3], PixelHeight)

\* C7 amended: the created raster is extent / pixel size pixels wide and
\* high, truncated to a whole number (rounded down, not up).
C7_SizeIsTruncation ==
    out_raster # None =>
        LET w == CombinedRect[2] - CombinedRect[1]
            h == CombinedRect[4] - CombinedRect[3]
        IN  /\ Out.RasterXSize * PixelWidth <= w
            /\ w < (Out.RasterXSize + 1) * PixelWidth
            /\ Out.RasterYSize * PixelHeight <= h
            /\ h < (Out.RasterYSize + 1) * PixelHeight

C7_Witness ==
    /\ out_raster # None
    /\ (CombinedRect[2] - CombinedRect[1]) % PixelWidth # 0
    /\ Out.RasterXSize * PixelWidth < CombinedRect[2] - CombinedRect[1]

\* the bands of the files before place k of the argument list
RECURSIVE BandsBefore(_)
BandsBefore(k) ==
    IF k <= 1 THEN 0 ELSE BandsBefore(k - 1) + raster_paths[k - 1].RasterCount

\* C8: the raster stack_images creates has as many bands as all its inputs
\* together.
C8_BandCountIsSum ==
    out_raster # None =>
        /\ Out.RasterCount = BandsBefore(Len(raster_paths) + 1)
        /\ {p[1] : p \in DOMAIN Out.array} = 0..(BandsBefore(Len(raster_paths) + 1) - 1)

C8_Witness ==
    /\ pc = "done"
    /\ raster_paths[1].RasterCount = 2
    /\ raster_paths[2].RasterCount = 1
    /\ Out.RasterCount = 3

\* C9: the running offset before input k is the band count of inputs 1..k-1
\* and is the total after the last; every band of a copied input k holds data
\* of that input's band in the range that starts at its offset, and no band
\* holds data of another input.
C9_BandRanges ==
    out_raster # None =>
        /\ present_layer = BandsBefore(idx + 1)
        /\ pc = "done" => present_layer = Out.RasterCount
        /\ \A p \in DOMAIN Out.array :
               Out.array[p] # 0 =>
                   \E k \in 1..idx :
                       /\ BandsBefore(k) <= p[1]
                       /\ p[1] < BandsBefore(k + 1)
                       /\ \E q \in DOMAIN raster_paths[k].array :
                              /\ q[1] = p[1] - BandsBefore(k)
                              /\ Out.array[p] = raster_paths[k].array[q]
        /\ \A k \in 1..idx :
               \A b \in 0..(raster_paths[k].RasterCount - 1) :
                   \E p \in DOMAIN Out.array :
                       /\ p[1] = BandsBefore(k) + b
                       /\ Out.array[p] # 0

C9_Witness ==
    /\ pc = "done"
    /\ Len(raster_paths) = 2
    /\ raster_paths[1].RasterCount = 2
    /\ raster_paths[2].RasterCount = 2
    /\ present_layer = 4

\* the input whose windows out_window and in_window are
WindowsOf == IF pc = "failed" THEN idx + 1 ELSE idx

\* the pixel window, in the grid of the created raster, of the rectangle f
WindowInOutput(f) ==
    <<(f[1] - Out.gt[1]) \div PixelWidth, (f[2] - Out.gt[1]) \div PixelWidth,
      (Out.gt[4] - f[4]) \div PixelHeight, (Out.gt[4] - f[3]) \div PixelHeight>>

\* C10: in union mode the destination window of an input is the pixel
\* window of its own footprint, and is as wide and high as its source window.
C10_UnionWindowIsFootprint ==
    (/\ geometry_mode = "union"
     /\ out_raster # None
     /\ err \in {"none", "ValueError"}
     /\ WindowsOf >= 1) =>
        /\ out_window = WindowInOutput(BoundsRect(raster_paths[WindowsOf]))
        /\ out_window[2] - out_window[1] = in_window[2] - in_window[1]
        /\ out_window[4] - out_window[3] = in_window[4] - in_window[3]

\* the files of the argument list differ in pixel size, projection and origin
InputsDiffer ==
    /\ Len(raster_paths) = 2
    /\ raster_paths[2].gt[2] # raster_paths[1].gt[2]
    /\ raster_paths[2].projection # raster_paths[1].projection
    /\ raster_paths[2].gt[1] # raster_paths[1].gt[1]

\* C11: the raster stack_images creates has its origin at the top left
\* corner (xmin, ymax) of the combined polygon, no rotation, the pixel width
\* and minus the absolute pixel height of the first input whatever the pixel
\* sizes of the other inputs, and the projection of the first input.
C11_OutputGeotransform ==
    out_raster # None =>
        /\ Out.gt = <<CombinedRect[1], raster_paths[1].gt[2], 0,
                      CombinedRect[4], 0, 0 - Abs(raster_paths[1].gt[6])>>
        /\ Out.projection = raster_paths[1].projection

C11_Witness ==
    /\ out_raster # None
    /\ InputsDiffer
    /\ Out.gt[1] # raster_paths[1].gt[1]

\* default of the nodata argument of create_new_image_from_polygon
Nodata == -9999

\* the pixel p of the created raster has been the target of a copy
Written(p) ==
    LET ow == pixel_bounds_from_polygon(Out, combined_polygons)
    IN  /\ p[1] < present_layer
        /\ p[2] \in PySlice(ow[3], ow[4], Out.RasterYSize)
        /\ p[3] \in PySlice(ow[1], ow[2], Out.RasterXSize)

\* C12: when stack_images has ended, every pixel of the created raster that
\* no copy has written holds the nodata value -9999, not zero.
C12_UnwrittenIsNodata ==
    (out_raster # None /\ pc \in {"done", "failed"}) =>
        \A p \in DOMAIN Out.array : ~Written(p) => Out.array[p] = Nodata

\* C13: stack_images is all or nothing: when it has failed, no output raster
\* exists.
C13_AllOrNothing ==
    pc = "failed" => out_raster = None

\* C14: the pixel windows pixel_bounds_from_polygon returns are never
\* inverted: x_min <= x_max and y_min <= y_max, for the created raster and
\* for every north-up input.
C14_WindowsNotInverted ==
    /\ out_window[1] <= out_window[2]
    /\ out_window[3] <= out_window[4]
    /\ in_window[1] <= in_window[2]
    /\ in_window[3] <= in_window[4]
    /\ \A k \in 1..Len(rasters) :
         \A mode \in {"intersect", "union"} :
             LET w == pixel_bounds_from_polygon(rasters[k],
                                                get_combined_polygon(rasters, mode))
             IN  w[1] <= w[2] /\ w[3] <= w[4]

\* the lower left corner of the combined polygon is at a larger row of the
\* first input than the upper right corner, and the window is not inverted
C14_Witness ==
    /\ pc = "done"
    /\ geometry_mode = "intersect"
    /\ point_to_pixel_coordinates(raster_paths[1],
                                  <<CombinedRect[1], CombinedRect[3]>>)[2]
         > point_to_pixel_coordinates(raster_paths[1],
                                      <<CombinedRect[2], CombinedRect[4]>>)[2]
    /\ in_window[3] < in_window[4]
    /\ out_window[3] < out_window[4]

\* C15: for a north-up geotransform with integer origin and pixel size,
\* point_to_pixel_coordinates maps the corner (originX + c * pixelWidth,
\* originY + r * pixelHeight) of every pixel (c, r) of the raster to (c, r),
\* and, flooring both coordinates, the points on the diagonal of a pixel
\* to that pixel too, also in the column left of the raster and the row
\* above it.
C15_PixelRoundTrip ==
    \A k \in 1..Len(raster_paths) :
        LET gt == raster_paths[k].gt
        IN  /\ \A c \in (0 - 1)..raster_paths[k].RasterXSize,
                  row \in (0 - 1)..raster_paths[k].RasterYSize :
                   point_to_pixel_coordinates(
                       raster_paths[k],
                       <<gt[1] + c * gt[2], gt[4] + row * gt[6]>>) = <<c, row>>
            /\ \A c \in (0 - 1)..raster_paths[k].RasterXSize, dx \in 0..(gt[2] - 1) :
                   point_to_pixel_coordinates(
                       raster_paths[k],
                       <<gt[1] + c * gt[2] + dx, gt[4] + c * gt[6] - dx>>) = <<c, c>>

\* a copy has used the pixel of the lower right corner of a raster whose
\* origin is not 0 and whose pixels are not of the default size
C15_Witness ==
    /\ pc = "done"
    /\ raster_paths[2].gt[1] > 0
    /\ raster_paths[2].gt[2] = PixelSize + 1
    /\ in_window = <<0, raster_paths[2].RasterXSize, 0, raster_paths[2].RasterYSize>>
    /\ point_to_pixel_coordinates(raster_paths[2],
                                  <<BoundsRect(raster_paths[2])[2],
                                    BoundsRect(raster_paths[2])[3]>>)
         = <<in_window[2], in_window[4]>>

\* C20 as stated: the mask combine_masks creates has exactly one band, and
\* the geotransform and the projection of the first mask, whatever the
\* extents of the other masks.
C20_MetadataOfFirstMask ==
    out_raster # None =>
        /\ Out.RasterCount = 1
        /\ Out.gt = raster_paths[1].gt
        /\ Out.projection = raster_paths[1].projection

\* C20 amended: the mask combine_masks creates has exactly one band, the
\* pixel size and the projection of the first mask, and its origin at the
\* top left corner of the combined polygon of all masks; its geotransform
\* is that of the first mask only when that corner is the first mask's origin.
C20_OneBandFirstMaskResolution ==
    out_raster # None =>
        /\ Out.RasterCount = 1
        /\ Out.gt = <<CombinedRect[1], raster_paths[1].gt[2], 0,
                      CombinedRect[4], 0, raster_paths[1].gt[6]>>
        /\ Out.projection = raster_paths[1].projection
        /\ (Out.gt = raster_paths[1].gt) <=>
              (CombinedRect[1] = raster_paths[1].gt[1]
               /\ CombinedRect[4] = raster_paths[1].gt[4])

C20_Witness ==
    /\ pc = "done"
    /\ InputsDiffer
    /\ Out.gt # raster_paths[1].gt
    /\ Out.gt[2] # raster_paths[2].gt[2]

\* the number of images in the image directory; they bear the timestamps
\* 1 .. NumImages, the newest the largest
NumImages == Cardinality({name \in DOMAIN image_dir.files : name.ext = "gtif"})

ImageOf(ts) == image_dir.files[ImageName(ts, "gtif")]

PathOf(ts) == join(image_dir.path, ImageName(ts, "gtif"))

\* the unit squares of a rectangle
CellsOf(rect) == (rect[1]..(rect[2] - 1)) \X (rect[3]..(rect[4] - 1))

\* the unit squares of the newest image that no older image covers
ResidualCells ==
    CellsOf(BoundsRect(ImageOf(NumImages)))
        \ UNION {CellsOf(BoundsRect(ImageOf(k))) : k \in 1..(NumImages - 1)}

\* the loop over the older images is over
SelectionEnded ==
    \/ pc \in {"stack", "done"}
    \/ pc = "failed" /\ err # "CreateNewStacksException"

\* C16: for a threshold above 0 the selection of create_new_stacks ends
\* after looking at each older image at most once, so after no more steps
\* than there are older images, and when it has ended the area left of the
\* newest image is below the threshold or is what is left of it after every
\* older image has been taken away.
C16_SelectionTerminates ==
    threshold > 0 =>
        /\ file_idx <= Len(safe_files)
        /\ Len(to_be_stacked) <= Max2(file_idx - 1, 0)
        /\ \A i, j \in 1..Len(to_be_stacked) :
               to_be_stacked[i] = to_be_stacked[j] => i = j
        /\ pc = "select" =>
               ENABLED (CreateNewStacksSelect \/ CreateNewStacksSelected)
        /\ SelectionEnded =>
               \/ GetArea(new_data_poly) < threshold
               \/ GetArea(new_data_poly) = Cardinality(ResidualCells)

\* both older images have been looked at and part of the newest is left
C16_Witness ==
    /\ threshold = 1
    /\ pc = "stack"
    /\ NumImages = 3
    /\ file_idx = 3
    /\ Len(to_be_stacked) = 2
    /\ GetArea(new_data_poly) > 0
    /\ GetArea(new_data_poly) < Cardinality(CellsOf(BoundsRect(ImageOf(NumImages))))

\* the most recent older image has the footprint of the newest image
MostRecentIdentical ==
    /\ NumImages >= 2
    /\ BoundsRect(ImageOf(NumImages - 1)) = BoundsRect(ImageOf(NumImages))

\* C17: when the most recent older image has the footprint of the newest
\* and the threshold is above 0, create_new_stacks selects that image and no
\* other, leaves an area of 0 and looks at no further image.
C17_IdenticalFootprintSelectsOne ==
    (MostRecentIdentical /\ threshold > 0 /\ SelectionEnded) =>
        /\ to_be_stacked = <<PathOf(NumImages - 1)>>
        /\ GetArea(new_data_poly) = 0
        /\ file_idx = 2

C17_Witness ==
    /\ MostRecentIdentical
    /\ NumImages = 3
    /\ threshold = 1
    /\ pc = "done"
    /\ to_be_stacked = <<PathOf(2)>>
    /\ Len(new_images) = 1

\* C18 as stated: create_new_stacks ends in CreateNewStacksException
\* whenever there is no older image, also when the image directory holds the
\* newest image only.
C18_NoOlderImageFails ==
    (NumImages <= 1 /\ pc # "start") =>
        pc = "failed" /\ err = "CreateNewStacksException"

\* C18 amended: create_new_stacks ends in CreateNewStacksException exactly
\* when the image directory holds no image; with the newest image only it
\* selects nothing and returns an empty list without an exception.
C18_EmptyDirectoryFails ==
    /\ (NumImages = 0 /\ pc # "start") =>
           pc = "failed" /\ err = "CreateNewStacksException"
    /\ NumImages >= 1 => err # "CreateNewStacksException"
    /\ NumImages = 1 =>
           /\ pc # "failed"
           /\ to_be_stacked = <<>>
           /\ new_images = <<>>

C18_Witness ==
    /\ NumImages = 1
    /\ pc = "done"
    /\ new_images = <<>>

\* the stack of the older image at path with the newest image is in the
\* stack directory
StackExists(path) ==
    StackName(get_sen_2_image_timestamp(path),
              get_sen_2_image_timestamp(safe_files[1]), "tif") \in listdir(stack_dir)

\* C19: when the stack of a selected image is already in the stack
\* directory, create_new_stacks stops there: it makes no stack for that
\* image nor for a later one, returns the stacks made so far, and raises
\* no exception.
C19_ExistingStackSkipped ==
    [][(/\ pc = "stack"
        /\ image_idx < Len(to_be_stacked)
        /\ StackExists(to_be_stacked[image_idx + 1])) =>
            (/\ pc' = "done"
             /\ new_images' = new_images
             /\ stack_dir' = stack_dir
             /\ err' = "none")]_vars

\* ---------------------------------------------------------------------------
\* C21: stack_images never modifies its inputs.  At every point of a call,
\* successful or failed, each input file still holds the pixel values it was
\* built with, over its full band/row/column extent, and the datasets opened
\* from the files are identical to them (pixel values, dimensions,
\* geotransform and projection); the only raster whose content differs from
\* what it held at creation is the output.
InputAsBuilt(k) ==
    LET file == raster_paths[k]
    IN  /\ DOMAIN file.array =
              (0 .. file.RasterCount - 1) \X (0 .. file.RasterYSize - 1)
                  \X (0 .. file.RasterXSize - 1)
        /\ \A p \in DOMAIN file.array :
              file.array[p] = PixelValue(k, p[1], p[2], p[3])

Candidate == safe_files[file_idx + 1]

CandidatePoly == get_raster_bounds(Open(Candidate))

\* a step of the selection loop: the loop moves on by one older image
SelectionStep == pc = "select" /\ file_idx' = file_idx + 1

\* C22 as stated: the older images are looked at once each, newest first
\* after the newest image, and an image is appended to to_be_stacked if and
\* only if its bounds and what is left of the newest image have a non-empty
\* intersection; then what is left becomes its Difference with the bounds of
\* the image, and an image that does not overlap leaves both to_be_stacked and
\* what is left as they were.
C22_SelectedIffOverlapping ==
    [][SelectionStep =>
          /\ \A i \in 1 .. file_idx :
                get_image_acquisition_time(safe_files[i])
                    > get_image_acquisition_time(Candidate)
          /\ IF Intersection(CandidatePoly, new_data_poly) # {}
             THEN /\ to_be_stacked' = Append(to_be_stacked, Candidate)
                  /\ new_data_poly' = Difference(new_data_poly, CandidatePoly)
             ELSE /\ to_be_stacked' = to_be_stacked
                  /\ new_data_poly' = new_data_poly]_vars

\* ---------------------------------------------------------------------------
\* the area of the bounds of the newest image
NewestArea == GetArea(get_raster_bounds(ImageOf(NumImages)))

\* at least one older image has been looked at
CandidateProcessed == file_idx >= 2

\* C23: the threshold test of create_new_stacks follows every older image
\* the loop looks at, whether or not that image overlaps what is left of the
\* newest: once the area left is below the threshold after an image, the loop
\* is over, so that no later image is looked at or selected; and when the
\* area of the newest image itself is below the threshold, no image after the
\* first older one is looked at.
C23_ThresholdStopsSelection ==
    /\ (CandidateProcessed /\ GetArea(new_data_poly) < threshold) =>
           /\ pc # "select"
           /\ ~ ENABLED CreateNewStacksSelect
           /\ Len(to_be_stacked) <= file_idx - 1
    /\ (NumImages >= 1 /\ pc # "start" /\ NewestArea < threshold) =>
           /\ file_idx <= 2
           /\ Len(to_be_stacked) <= 1

\* the first older image shares no point with the newest, whose area is
\* below the threshold, and the loop has ended after it with a further older
\* image not looked at
C23_Witness ==
    /\ NumImages = 3
    /\ pc = "stack"
    /\ NewestArea < threshold
    /\ Intersection(get_raster_bounds(ImageOf(2)),
                    get_raster_bounds(ImageOf(3))) = {}
    /\ file_idx = 2
    /\ Len(safe_files) = 3
    /\ GetArea(new_data_poly) = NewestArea

\* ---------------------------------------------------------------------------
\* the window w is as wide and as high as the window v
SameShape(w, v) ==
    /\ w[2] - w[1] = v[2] - v[1]
    /\ w[4] - w[3] = v[4] - v[3]

\* the window w lies within the columns and rows of raster
InBounds(w, raster) ==
    /\ 0 <= w[1] /\ w[1] <= w[2] /\ w[2] <= raster.RasterXSize
    /\ 0 <= w[3] /\ w[3] <= w[4] /\ w[4] <= raster.RasterYSize

\* the inputs have one pixel size
ShareResolution ==
    \A k \in 1 .. Len(raster_paths) :
        /\ raster_paths[k].gt[2] = raster_paths[1].gt[2]
        /\ raster_paths[k].gt[6] = raster_paths[1].gt[6]

\* C24: for inputs of one resolution whose origins may differ, also by a
\* part of a pixel, the source window stack_images computes in the grid of
\* an input and the destination window it computes in the grid of the output
\* are equally wide and equally high and lie within their rasters, so that
\* every copy is between equally shaped regions that are in bounds.
C24_WindowsMatchInBounds ==
    (/\ ShareResolution
     /\ out_raster # None
     /\ err \in {"none", "ValueError"}
     /\ WindowsOf >= 1) =>
        /\ SameShape(in_window, out_window)
        /\ InBounds(out_window, Out)
        /\ InBounds(in_window, raster_paths[WindowsOf])

\* ---------------------------------------------------------------------------
\* the rectangle a lies within the rectangle b
RectWithin(a, b) ==
    /\ b[1] <= a[1] /\ a[2] <= b[2]
    /\ b[3] <= a[3] /\ a[4] <= b[4]

\* what is left of the newest image lies within the bounds of that image
RemainingWithinNewest ==
    NumImages >= 1 =>
        \A r \in new_data_poly : RectWithin(r, BoundsRect(ImageOf(NumImages)))

\* to_be_stacked is a subsequence, without repetition, of the older images
\* in the order the loop looks at them, and is without the newest image
SelectedIsSubsequence ==
    /\ \E f \in [1 .. Len(to_be_stacked) -> 2 .. Len(safe_files)] :
          /\ \A i \in 1 .. Len(to_be_stacked) :
                to_be_stacked[i] = safe_files[f[i]]
          /\ \A i, j \in 1 .. Len(to_be_stacked) : i < j => f[i] < f[j]
    /\ \A i, j \in 1 .. Len(to_be_stacked) :
          to_be_stacked[i] = to_be_stacked[j] => i = j
    /\ \A i \in 1 .. Len(to_be_stacked) :
          /\ to_be_stacked[i] # PathOf(NumImages)
          /\ to_be_stacked[i] # safe_files[1]

SelectionInvariant == RemainingWithinNewest /\ SelectedIsSubsequence

\* C25: throughout the selection loop of create_new_stacks, what is left of
\* the newest image lies within the bounds of the newest image and its area
\* does not grow from one step to the next, and to_be_stacked is a
\* subsequence without repetition of the older images in the order the loop
\* looks at them, never holding the newest image.
C25_SelectionInvariant ==
    [][/\ SelectionInvariant
       /\ SelectionInvariant'
       /\ pc # "start" => GetArea(new_data_poly') <= GetArea(new_data_poly)]_vars

\* both older images have been selected, the older one last, and each has
\* taken a part of the newest away
C25_Witness ==
    /\ NumImages = 3
    /\ threshold = 0
    /\ to_be_stacked = <<PathOf(2), PathOf(1)>>
    /\ new_data_poly # {}
    /\ GetArea(new_data_poly) < NewestArea
    /\ GetArea(new_data_poly)
         < GetArea(Difference(get_raster_bounds(ImageOf(3)),
                              get_raster_bounds(ImageOf(2))))

====
